---- MODULE Spec2Model ----
(***************************************************************************)
(* django-fmft: a table (django-tables2) and a model formset that share    *)
(* one sorted / paginated / filtered record set.                           *)
(*                                                                         *)
(* The model follows fmft/formset_tables.py (get_table, get_formset,       *)
(* get_formset_table and their helpers) and fmft/views.py (the filter      *)
(* mixin and the formset-and-table mixin).  Framework objects are modelled *)
(* by the part of their behaviour the library reads:                       *)
(*   - a queryset is its evaluated list of primary keys and its `ordered`  *)
(*     flag;                                                               *)
(*   - a model instance is a triple: <<"rec", 0, pk>> for a stored record, *)
(*     <<"new", f, j>> for the blank instance of the j-th extra form of    *)
(*     formset f, <<"top"|"bottom", 0, i>> for a row the table class pins  *)
(*     itself;                                                             *)
(*   - a table is its data, its shared pinned_data dict, its page and its  *)
(*     bound columns;                                                      *)
(*   - a formset is its queryset and its list of forms.                    *)
(* A bound (POST) formset is built from the data its own page submitted,   *)
(* so its forms carry the instances of its queryset in queryset order.     *)
(***************************************************************************)
EXTENDS Integers, Sequences, FiniteSets, TLC

\* ------------------------------------------------------------------ bounds
MaxRecords == 3

MaxExtra == 2

MaxPerPage == 2

MaxPage == 2

MaxCalls == 2

\* ----------------------------------------------------------------- helpers
Min(a, b) == IF a < b THEN a ELSE b

Range(s) == {s[i] : i \in DOMAIN s}

\* The records of the fixture: the price column (distinct per record, in an
\* order that differs from the primary-key order) and the name column.
Price(pk) == (pk * 3) % 7

NameMatches(pk) == pk % 2 = 1

\* --------------------------------------------------------------- instances
Rec(pk) == <<"rec", 0, pk>>

NewInstance(fs, j) == <<"new", fs, j>>

PinnedRow(where, i) == <<where, 0, i>>

Records(rows) == [i \in 1..Len(rows) |-> Rec(rows[i])]

\* --------------------------------------------------------------- querysets
SortKey(pk, field) ==
    CASE field = "price" -> Price(pk)
      [] field = "-price" -> 0 - Price(pk)
      [] OTHER -> pk

\* QuerySet.order_by(field): the same records, ordered by the field.
OrderBy(qs, field) ==
    [rows |-> SortSeq(qs.rows, LAMBDA a, b : SortKey(a, field) < SortKey(b, field)),
     ordered |-> TRUE]

\* QuerySet.none(): an EmptyQuerySet, which reports itself ordered.
NoneQs == [rows |-> <<>>, ordered |-> TRUE]

\* ---------------------------------------------------------------- formsets
NoFormset == [id |-> -1, queryset |-> NoneQs, forms |-> <<>>, initial |-> 0]

\* BaseModelFormSet.get_queryset: the queryset given, ordered by the primary key
\* when it is not ordered.
FormsetRows(qs) == IF qs.ordered THEN qs.rows ELSE OrderBy(qs, "pk").rows

\* formset_class(queryset=qs): one initial form per record of get_queryset(), in
\* its order, then `extra` blank forms, each on an instance of its own.
NewFormset(id, qs, formset_class) ==
    [id |-> id,
     queryset |-> qs,
     forms |-> [i \in 1..(Len(qs.rows) + formset_class.extra) |->
                  [index |-> i - 1,
                   formset |-> id,
                   instance |-> IF i <= Len(qs.rows)
                                THEN Rec(FormsetRows(qs)[i])
                                ELSE NewInstance(id, i - Len(qs.rows))]],
     initial |-> Len(qs.rows)]

\* formset.extra_forms
ExtraForms(fs) == SubSeq(fs.forms, fs.initial + 1, Len(fs.forms))

FormInstances(forms) == [i \in 1..Len(forms) |-> forms[i].instance]

\* ------------------------------------------------------------ FormAccessor
\* FormAccessor.form_map: {id(form.instance): form for form in formset}; a
\* later form replaces an earlier one under the same key.
form_map_by_pk(fs) ==
    LET key(f) == IF f.instance[1] = "rec" THEN f.instance ELSE <<"new", 0, 0>>
        keys == {key(fs.forms[i]) : i \in DOMAIN fs.forms}
    IN  [k \in keys |->
           fs.forms[CHOOSE i \in DOMAIN fs.forms :
                      /\ key(fs.forms[i]) = k
                      /\ \A j \in DOMAIN fs.forms : key(fs.forms[j]) = k => j <= i]]

form_map(fs) ==
    LET keys == {fs.forms[i].instance : i \in DOMAIN fs.forms}
    IN  [k \in keys |->
           fs.forms[CHOOSE i \in DOMAIN fs.forms :
                      /\ fs.forms[i].instance = k
                      /\ \A j \in DOMAIN fs.forms : fs.forms[j].instance = k => j <= i]]

\* FormAccessor.__len__
FormAccessorLen(fs) == Cardinality(DOMAIN form_map(fs))

IntKey(i) == <<"int", 0, i>>

Found(form) == [ok |-> TRUE, form |-> form, error |-> "none"]

Raised(error) == [ok |-> FALSE, form |-> [index |-> -1, formset |-> -1, instance |-> <<"none", 0, 0>>], error |-> error]

FormAccessorGetItem_all_key_errors(fs, key) ==
    IF key[1] = "int"
    THEN LET n == Len(fs.forms)
             i == IF key[3] < 0 THEN key[3] + n ELSE key[3]
         IN  IF i >= 0 /\ i < n THEN Found(fs.forms[i + 1]) ELSE Raised("KeyError")
    ELSE IF key \in DOMAIN form_map(fs)
         THEN Found(form_map(fs)[key])
         ELSE Raised("KeyError")

\* FormAccessor.__getitem__ / __call__: an int indexes the formset (a negative
\* index counts from the end, an index out of range raises IndexError); any
\* other key is looked up in form_map and a miss raises KeyError.
FormAccessorGetItem(fs, key) ==
    IF key[1] = "int"
    THEN LET n == Len(fs.forms)
             i == IF key[3] < 0 THEN key[3] + n ELSE key[3]
         IN  IF i >= 0 /\ i < n THEN Found(fs.forms[i + 1]) ELSE Raised("IndexError")
    ELSE IF key \in DOMAIN form_map(fs)
         THEN Found(form_map(fs)[key])
         ELSE Raised("KeyError")

\* ------------------------------------------------------------ form fields
\* The form class: its visible fields and its hidden field (the primary key
\* input a model formset adds).
FormVisibleFields == <<"name", "status">>

FormHiddenFields == <<"id">>

\* The visible fields of a form of a formset (BaseFormSet.add_fields): the form
\* class's, and DELETE when the formset can delete and the form is an initial
\* form or extra forms can be deleted too (can_delete_extra).
FormVisibleFieldNames(formset_class, is_initial) ==
    FormVisibleFields
      \o (IF formset_class.can_delete /\ (formset_class.can_delete_extra \/ is_initial)
          THEN <<"DELETE">>
          ELSE <<>>)

\* the names of all the fields of the form `form` of formset fs
FormFieldNames(formset_class, fs, form) ==
    Range(FormVisibleFieldNames(formset_class, form.index < fs.initial))
      \cup Range(FormHiddenFields)

\* FormAccessor.visible_fields of the accessor get_table builds, on a formset
\* of the class on an empty queryset: those of sample_form, the formset's
\* first form (an extra form) or its empty_form, neither an initial form.
visible_fields(formset_class) == FormVisibleFieldNames(formset_class, FALSE)

\* FormAccessor.hidden_fields
hidden_fields(formset_class) == FormHiddenFields

\* ------------------------------------------------------------------ tables
\* The base table class: its declared columns, in order.  table_class.invisible
\* names the columns declared with visible=False; table_class.top / .bottom are
\* what its get_top_pinned_data / get_bottom_pinned_data return.
BaseColumnNames == <<"sku", "name", "status">>

\* tables.Column(verbose_name=..., visible=..., linkify=...) declared under a name
Column(name, verbose_name, visible, linkify) ==
    [name |-> name, form |-> FALSE, visible |-> visible, forms |-> -1, form_fields |-> <<>>,
     verbose_name |-> verbose_name, link |-> linkify]

PlainColumn(name, visible) == Column(name, name, visible, FALSE)

base_columns(table_class) ==
    [i \in 1..Len(BaseColumnNames) |->
       Column(BaseColumnNames[i], BaseColumnNames[i],
              BaseColumnNames[i] \notin table_class.invisible,
              BaseColumnNames[i] \in table_class.linkified)]

ColumnNames(cols) == {cols[i].name : i \in DOMAIN cols}

\* dict(items).items(): the keys in the order they first appear, each with the
\* value given last under it.
DictItems(items) ==
    LET isFirst(i) == \A j \in 1..(i - 1) : items[j].name # items[i].name
        firsts == SelectSeq([i \in 1..Len(items) |-> i], isFirst)
        last(n) == items[CHOOSE j \in DOMAIN items :
                           /\ items[j].name = n
                           /\ \A k \in DOMAIN items : items[k].name = n => k <= j]
    IN  [k \in 1..Len(firsts) |-> last(items[firsts[k]].name)]

\* {**dict(a), **dict(b)}.items(): the keys of a in order, a value replaced by
\* b's under the same key, then the keys only b has, in b's order.
MergeColumns(a, b) == DictItems(a \o b)

get_extra_columns(formset_class) ==
    IF formset_class.can_delete THEN <<Column("DELETE", "Delete", TRUE, FALSE)>> ELSE <<>>

\* kwargs.get(key, default)
DictGet(kwargs, key, default) == IF key \in DOMAIN kwargs THEN kwargs[key] ELSE default

get_formset_table_kwargs_generated_last(formset_class, kwargs) ==
    [k \in DOMAIN kwargs \cup {"extra_columns"} |->
       IF k = "extra_columns"
       THEN MergeColumns(DictGet(kwargs, "extra_columns", <<>>),
                         get_extra_columns(formset_class))
       ELSE kwargs[k]]

\* get_formset_table_kwargs(formset, **kwargs): kwargs with extra_columns set to
\* the columns the formset needs merged with the columns given.
get_formset_table_kwargs(formset_class, kwargs) ==
    [k \in DOMAIN kwargs \cup {"extra_columns"} |->
       IF k = "extra_columns"
       THEN MergeColumns(get_extra_columns(formset_class),
                         DictGet(kwargs, "extra_columns", <<>>))
       ELSE kwargs[k]]

\* config.update(**kwargs): a keyword given replaces the configured value
Updated(config, kwargs) ==
    [k \in DOMAIN config |-> IF k \in DOMAIN kwargs THEN kwargs[k] ELSE config[k]]

FormFieldsColumnInit_linkable(name, forms, form_fields, extra) ==
    [name |-> name, form |-> TRUE, visible |-> extra.visible, forms |-> forms,
     form_fields |-> form_fields, verbose_name |-> extra.verbose_name,
     link |-> extra.linkify]

\* FormFieldsColumn.__init__(forms, form_fields, **extra): the column as
\* Column.__init__ configures it from extra, then self.link = False.
FormFieldsColumnInit(name, forms, form_fields, extra) ==
    [name |-> name, form |-> TRUE, visible |-> extra.visible, forms |-> forms,
     form_fields |-> form_fields, verbose_name |-> extra.verbose_name,
     link |-> FALSE]

\* FormFieldsColumn.from_column(forms, other, form_fields, **kwargs): configured
\* as the other column (its visibility included) but for linkify, then updated
\* with kwargs, holding the form accessor.
from_column(forms, other, form_fields, kwargs) ==
    LET config == [verbose_name |-> other.verbose_name,
                   visible |-> other.visible,
                   linkify |-> FALSE]
    IN  FormFieldsColumnInit(other.name, forms, form_fields, Updated(config, kwargs))

\* A Meta class is the sequence of the attribute dicts on its MRO; <<>> is no
\* Meta.  TableOptions reads Meta.fields with getattr(Meta, "fields", None).
NoMeta == <<>>

NoAttrs == <<>>

MetaFields(meta) ==
    LET has == {i \in DOMAIN meta : "fields" \in DOMAIN meta[i]}
    IN  IF has = {}
        THEN [given |-> FALSE, fields |-> {}]
        ELSE [given |-> TRUE,
              fields |-> Range(meta[CHOOSE i \in has : \A k \in has : i <= k].fields)]

FormFieldsAttrs_all(base, extra_columns, forms, formset_class) ==
    LET chain == base_columns(base) \o extra_columns
    IN  MergeColumns(<<>>, [i \in 1..Len(chain) |->
                              from_column(forms, chain[i],
                                          IF i = 1
                                          THEN hidden_fields(formset_class) \o <<chain[i].name>>
                                          ELSE <<>>,
                                          <<>>)])

\* the columns get_table_class puts in attrs: the columns, of the base columns
\* then the extra columns, named after a visible form field become
\* FormFieldsColumns built on the accessor `forms`; the first of them also
\* carries the hidden fields; attrs is a dict, a later column of the same name
\* replaces the earlier one.
FormFieldsAttrs(base, extra_columns, forms, formset_class) ==
    LET table_columns == ColumnNames(extra_columns) \cup ColumnNames(base_columns(base))
        visible_column_fields ==
            {n \in Range(visible_fields(formset_class)) : n \in table_columns}
        chain == base_columns(base) \o extra_columns
        isField(i) == chain[i].name \in visible_column_fields
        first(i) == isField(i) /\ \A j \in 1..(i - 1) : ~isField(j)
        attr(i) == from_column(forms, chain[i],
                               IF first(i)
                               THEN hidden_fields(formset_class) \o <<chain[i].name>>
                               ELSE <<>>,
                               <<>>)
        idx == SelectSeq([i \in 1..Len(chain) |-> i], isField)
    IN  MergeColumns(<<>>, [k \in 1..Len(idx) |-> attr(idx[k])])

get_table_class_no_meta(base, extra_columns, forms, formset_class) ==
    [name |-> "FormFields" \o base.name,
     bases |-> <<base.name>>,
     meta |-> NoMeta,
     base_columns |-> MergeColumns(base_columns(base),
                                   FormFieldsAttrs(base, extra_columns, forms, formset_class))]

\* get_table_class: type(f"FormFields{base.__name__}", (base,), attrs).  The
\* subclass has the base's columns, a declared column (attrs) overrides the
\* base class's in place and a new one is appended; Meta, when the base has
\* one, is an empty subclass of it.
get_table_class(base, extra_columns, forms, formset_class) ==
    [name |-> "FormFields" \o base.name,
     bases |-> <<base.name>>,
     meta |-> IF base.meta # NoMeta THEN <<NoAttrs>> \o base.meta ELSE NoMeta,
     base_columns |-> MergeColumns(base_columns(base),
                                   FormFieldsAttrs(base, extra_columns, forms, formset_class))]

NoPage == [number |-> 0, per_page |-> 0, data |-> <<>>]

NoTable ==
    [id |-> -1, data |-> NoneQs, pinned |-> [top |-> <<>>, bottom |-> <<>>],
     page |-> NoPage, columns |-> <<>>]

HasPage(t) == t.page.number > 0

\* Table.order_by = field: the table data re-ordered, an empty value ignored.
OrderTable(t, field) ==
    IF field = "" THEN t ELSE [t EXCEPT !.data = OrderBy(t.data, field)]

\* formset_tables.get_table: the placeholder accessor (formset 0, on an empty
\* queryset), the generated table class and its instance on the queryset.
get_table(id, qs, table_class, table_kwargs, formset_class) ==
    LET kwargs == get_formset_table_kwargs(formset_class, table_kwargs)
        extra_columns == kwargs.extra_columns
        columns == get_table_class(table_class, extra_columns, 0, formset_class).base_columns
    IN  OrderTable([id |-> id,
                    data |-> qs,
                    pinned |-> [top |-> table_class.top, bottom |-> table_class.bottom],
                    page |-> NoPage,
                    columns |-> columns],
                   kwargs.order_by)

\* len(table.rows): the data rows and the pinned rows
RowCount(t) == Len(t.data.rows) + Len(t.pinned.top) + Len(t.pinned.bottom)

\* Paginator(table.rows, per_page).num_pages
NumPages(t, per_page) ==
    IF RowCount(t) = 0 THEN 1 ELSE (RowCount(t) + per_page - 1) \div per_page

Paginate_skipped(t, per_page, number) == t

\* Table.paginate(per_page, page): table.page.object_list is table.rows[bottom:top],
\* whose data is the slice of the table data.
Paginate(t, per_page, number) ==
    LET bottom == (number - 1) * per_page
        top == IF bottom + per_page >= RowCount(t) THEN RowCount(t) ELSE bottom + per_page
    IN  [t EXCEPT !.page = [number |-> number,
                            per_page |-> per_page,
                            data |-> SubSeq(t.data.rows, bottom + 1,
                                            Min(top, Len(t.data.rows)))]]

\* table.paginated_rows: the records of the rows displayed, pinned rows included
PageData(t) == IF HasPage(t) THEN t.page.data ELSE t.data.rows

PaginatedRows(t) == t.pinned.top \o Records(PageData(t)) \o t.pinned.bottom

\* Python's None, and an AttributeError raised
None == [none |-> TRUE]

AttributeError == [raised |-> "AttributeError"]

\* hasattr(table, "page"): a table has a page once it is paginated
HasPageAttr(t) == "page" \in DOMAIN t /\ HasPage(t)

\* table.page.object_list.data if hasattr(table, "page") else table.data.data:
\* the records of the page, or of the table; an attribute of the chain that
\* is missing raises AttributeError.
TableRecordSet(t) ==
    IF HasPageAttr(t)
    THEN IF "data" \in DOMAIN t.page
         THEN [rows |-> t.page.data, ordered |-> t.data.ordered]
         ELSE AttributeError
    ELSE IF "data" \in DOMAIN t /\ "rows" \in DOMAIN t.data
         THEN t.data
         ELSE AttributeError

get_table_queryset_uncaught(t) == TableRecordSet(t)

get_table_queryset_unpaged(t) ==
    IF "data" \in DOMAIN t /\ "rows" \in DOMAIN t.data THEN t.data ELSE None

\* get_table_queryset: the record set, None when AttributeError was raised
get_table_queryset(t) ==
    IF TableRecordSet(t) = AttributeError THEN None ELSE TableRecordSet(t)

add_extra_forms_none(fs, t) == t

add_extra_forms_replace(fs, t) ==
    [t EXCEPT !.pinned.bottom = FormInstances(ExtraForms(fs))]

add_extra_forms(fs, t) ==
    [t EXCEPT !.pinned.bottom = t.pinned.bottom \o FormInstances(ExtraForms(fs))]

\* set_table_forms: iterating table.columns yields the visible bound columns
\* only; each of them that is a FormFieldsColumn gets the accessor of formset fs.
set_table_forms(fs, t) ==
    [t EXCEPT !.columns =
        [i \in 1..Len(t.columns) |->
           IF t.columns[i].visible /\ t.columns[i].form
           THEN [t.columns[i] EXCEPT !.forms = fs.id]
           ELSE t.columns[i]]]

get_formset_by_pk(id, t, formset_class) ==
    LET fs == NewFormset(id, OrderBy(get_table_queryset(t), "pk"), formset_class)
    IN  <<fs, add_extra_forms(fs, set_table_forms(fs, t))>>

\* formset_tables.get_formset: <<formset, table>> after the call
get_formset(id, t, formset_class) ==
    LET fs == NewFormset(id, get_table_queryset(t), formset_class)
    IN  <<fs, add_extra_forms(fs, set_table_forms(fs, t))>>

\* ------------------------------------------------------------------- state
VARIABLES
    pc,             \* position of the running call
    kind,           \* entry point: "accessor", "function", or the view class
    queryset,       \* the base queryset (the function's argument, the view's queryset)
    formset_class,  \* [extra, can_delete, can_delete_extra]: the formset factory's kwargs
    table_class,    \* [name, meta, top, bottom, invisible, linkified]: the base table class
    table_kwargs,   \* [order_by, extra_columns]
    paginate,       \* [per_page, page]; per_page = 0: no pagination
    request,        \* [method, filter, sort, page]
    strict,         \* FilterMixin.strict
    object_list,    \* view.object_list
    filterset,      \* view.filterset: [is_bound, is_valid, qs]
    placeholder,    \* the formset on an empty queryset that get_table builds
    table,          \* the table built last
    formset,        \* the formset built last on the table's records
    tablesBuilt,    \* tables constructed so far
    formsetsBuilt,  \* formsets constructed so far on a table's records
    cached,         \* [table, formset]: view._table, view._formset (ids; -1: None)
    pending,        \* what the caller of get_formset_and_table takes from the pair
    ret,            \* [formset, table]: ids last returned (-1: not returned)
    ncalls,         \* calls on the view that have returned
    validated,      \* id of the formset post() validates (-1: none)
    lookup,         \* [key, result] of the last FormAccessor lookup
    call,           \* [fn, args, result, ...] of the last call of a function on its own
    rendered        \* [status, rows]: what rendering the table gave

vars ==
    <<pc, kind, queryset, formset_class, table_class, table_kwargs, paginate, request,
      strict, object_list, filterset, placeholder, table, formset, tablesBuilt,
      formsetsBuilt, cached, pending, ret, ncalls, validated, lookup, call, rendered>>

inputs == <<kind, queryset, formset_class, table_class, table_kwargs, paginate, request, strict>>

viewState == <<object_list, filterset, cached, pending, ncalls, validated>>

NoRequest == [method |-> "none", filter |-> "", sort |-> "", page |-> 1]

NoFilterset == [is_bound |-> FALSE, is_valid |-> FALSE, qs |-> NoneQs]

NoLookup == [key |-> <<"none", 0, 0>>, result |-> Raised("none")]

NoReturn == [formset |-> -1, table |-> -1]

NoCall == [fn |-> "none"]

NotRendered == [status |-> "none", rows |-> <<>>]

\* the inputs' domains
AllRecords(n) == [i \in 1..n |-> i]

FormsetClasses ==
    {fc \in [extra : 0..MaxExtra, can_delete : BOOLEAN, can_delete_extra : BOOLEAN] :
       fc.can_delete \/ fc.can_delete_extra}

PinnedChoices(where) == {<<>>, <<PinnedRow(where, 1)>>}

\* class Meta of the table class: model = Item; fields = (...)
ItemMeta == <<[fields |-> BaseColumnNames]>>

TableClasses ==
    [name : {"ItemTable"}, meta : {ItemMeta}, top : PinnedChoices("top"),
     bottom : PinnedChoices("bottom"), invisible : {{}, {"name"}}, linkified : {{"sku", "status"}}]

SortFields == {"", "price", "-price"}

PaginateArgs ==
    {[per_page |-> 0, page |-> 1]} \cup [per_page : 1..MaxPerPage, page : 1..MaxPage]

Init ==
    /\ pc = "start"
    /\ kind = "none"
    /\ queryset = NoneQs
    /\ formset_class = [extra |-> 0, can_delete |-> FALSE, can_delete_extra |-> TRUE]
    /\ table_class = [name |-> "Table", meta |-> NoMeta, top |-> <<>>, bottom |-> <<>>,
                      invisible |-> {}, linkified |-> {}]
    /\ table_kwargs = [order_by |-> "", extra_columns |-> <<>>]
    /\ paginate = [per_page |-> 0, page |-> 1]
    /\ request = NoRequest
    /\ strict = TRUE
    /\ object_list = NoneQs
    /\ filterset = NoFilterset
    /\ placeholder = NoFormset
    /\ table = NoTable
    /\ formset = NoFormset
    /\ tablesBuilt = 0
    /\ formsetsBuilt = 0
    /\ cached = [table |-> -1, formset |-> -1]
    /\ pending = "none"
    /\ ret = NoReturn
    /\ ncalls = 0
    /\ validated = -1
    /\ lookup = NoLookup
    /\ call = NoCall
    /\ rendered = NotRendered

\* ------------------------------------------------- FormAccessor on a formset
\* formset = formset_class(queryset=qs); forms = FormAccessor(formset)
NewFormAccessor ==
    /\ pc = "start"
    /\ \E n \in 0..MaxRecords, fc \in FormsetClasses :
         /\ queryset' = [rows |-> AllRecords(n), ordered |-> TRUE]
         /\ formset_class' = fc
         /\ formset' = NewFormset(1, [rows |-> AllRecords(n), ordered |-> TRUE], fc)
    /\ kind' = "accessor"
    /\ formsetsBuilt' = 1
    /\ pc' = "done"
    /\ UNCHANGED <<table_class, table_kwargs, paginate, request, strict, placeholder, table,
                   tablesBuilt, ret, lookup, call, rendered>>
    /\ UNCHANGED viewState

LookupKeys ==
    {IntKey(i) : i \in (0 - MaxRecords - MaxExtra - 1)..(MaxRecords + MaxExtra)}
    \cup {Rec(pk) : pk \in 1..MaxRecords}
    \cup {NewInstance(f, j) : f \in 0..1, j \in 1..MaxExtra}

\* forms[key] / forms(key)
Lookup ==
    /\ pc = "done"
    /\ kind = "accessor"
    /\ \E key \in LookupKeys :
         lookup' = [key |-> key, result |-> FormAccessorGetItem(formset, key)]
    /\ UNCHANGED <<call, rendered>>
    /\ UNCHANGED <<pc, formset, placeholder, table, tablesBuilt, formsetsBuilt, ret>>
    /\ UNCHANGED inputs
    /\ UNCHANGED viewState

\* columns a caller passes in extra_columns: one that is no form field, one
\* named as a base column that is a form field, and a DELETE column of its own
ExtraNotes == Column("notes", "Notes", TRUE, FALSE)

ExtraName == Column("name", "Custom name", TRUE, TRUE)

ExtraDelete == Column("DELETE", "Remove", TRUE, FALSE)

ExtraColumnChoices ==
    {<<>>, <<ExtraNotes>>, <<ExtraName>>, <<ExtraNotes, ExtraName>>, <<ExtraDelete>>,
     <<ExtraDelete, ExtraNotes>>}

\* --------------------------------------------------------- get_formset_table
CallGetFormsetTable ==
    /\ pc = "start"
    /\ \E n \in 0..MaxRecords, fc \in FormsetClasses, tc \in TableClasses,
          ob \in SortFields, pg \in PaginateArgs, ec \in {<<>>, <<ExtraNotes, ExtraName>>} :
         /\ queryset' = [rows |-> AllRecords(n), ordered |-> TRUE]
         /\ formset_class' = fc
         /\ table_class' = tc
         /\ table_kwargs' = [order_by |-> ob, extra_columns |-> ec]
         /\ paginate' = pg
    /\ kind' = "function"
    /\ pc' = "get_table"
    /\ UNCHANGED <<request, strict, placeholder, table, formset, tablesBuilt, formsetsBuilt,
                   ret, lookup, call, rendered>>
    /\ UNCHANGED viewState

\* Step 1: table = get_table(queryset, table_class, table_kwargs, formset_class, formset_kwargs)
FunctionGetTable ==
    /\ pc = "get_table"
    /\ kind = "function"
    /\ placeholder' = NewFormset(0, NoneQs, formset_class)
    /\ table' = get_table(tablesBuilt + 1, queryset, table_class, table_kwargs, formset_class)
    /\ tablesBuilt' = tablesBuilt + 1
    /\ pc' = "paginate"
    /\ UNCHANGED <<formset, formsetsBuilt, ret, lookup, call, rendered>>
    /\ UNCHANGED inputs
    /\ UNCHANGED viewState

\* if paginate: table.paginate(**paginate); a page past the last raises EmptyPage
FunctionPaginate ==
    /\ pc = "paginate"
    /\ kind = "function"
    /\ IF paginate.per_page = 0
       THEN /\ table' = table
            /\ pc' = "get_formset"
       ELSE IF paginate.page <= NumPages(table, paginate.per_page)
            THEN /\ table' = Paginate(table, paginate.per_page, paginate.page)
                 /\ pc' = "get_formset"
            ELSE /\ table' = table
                 /\ pc' = "raised"
    /\ UNCHANGED <<placeholder, formset, tablesBuilt, formsetsBuilt, ret, lookup, call, rendered>>
    /\ UNCHANGED inputs
    /\ UNCHANGED viewState

\* Step 2: formset = get_formset(table, formset_class, formset_kwargs); return formset, table
FunctionGetFormset ==
    /\ pc = "get_formset"
    /\ kind = "function"
    /\ LET r == get_formset(formsetsBuilt + 1, table, formset_class)
       IN  /\ formset' = r[1]
           /\ table' = r[2]
           /\ ret' = [formset |-> r[1].id, table |-> r[2].id]
    /\ formsetsBuilt' = formsetsBuilt + 1
    /\ pc' = "done"
    /\ UNCHANGED <<placeholder, tablesBuilt, lookup, call, rendered>>
    /\ UNCHANGED inputs
    /\ UNCHANGED viewState

\* ----------------------------------------------------------------- rendering
\* the formset a column's accessor is built on
AccessorFormset(id) == IF id = formset.id THEN formset ELSE placeholder

\* form[f]: the bound field, which renders under the name form-<index>-<f>
BoundField(form, f) == <<"form", form.index, f>>

get_row_context_sample(col, record) ==
    LET fs == AccessorFormset(col.forms)
        fields == IF col.form_fields = <<>> THEN <<col.name>> ELSE col.form_fields
    IN  IF Len(fs.forms) > 0 /\ Range(fields) \subseteq FormFieldNames(formset_class, fs, fs.forms[1])
        THEN [ok |-> TRUE,
              fields |-> [k \in 1..Len(fields) |-> BoundField(fs.forms[1], fields[k])]]
        ELSE [ok |-> FALSE, fields |-> <<>>]

\* FormFieldsColumn.get_row_context: form = self.forms(record), which may raise
\* KeyError; fields = the bound fields of the form named in form_fields, or
\* after the column when form_fields is None; form[f] raises KeyError for a
\* name that is no field of the form.
get_row_context(col, record) ==
    LET fs == AccessorFormset(col.forms)
        r == FormAccessorGetItem(fs, record)
        fields == IF col.form_fields = <<>> THEN <<col.name>> ELSE col.form_fields
    IN  IF r.ok /\ Range(fields) \subseteq FormFieldNames(formset_class, fs, r.form)
        THEN [ok |-> TRUE,
              fields |-> [k \in 1..Len(fields) |-> BoundField(r.form, fields[k])]]
        ELSE [ok |-> FALSE, fields |-> <<>>]

\* the value of a record under a column's accessor
RecordValue(record, name) == <<"value", record, name>>

\* FormFieldsColumn.value(record, value)
FormFieldsColumnValue(record, value) == value

\* a cell of the table: a FormFieldsColumn renders its template with the
\* fields of get_row_context (a TemplateColumn has no empty values, so it is
\* rendered whatever the record's value); any other column shows the value.
Cell(col, record) ==
    IF col.form
    THEN [column |-> col.name,
          ok |-> get_row_context(col, record).ok,
          fields |-> get_row_context(col, record).fields,
          value |-> FormFieldsColumnValue(record, RecordValue(record, col.name)),
          link |-> col.link]
    ELSE [column |-> col.name, ok |-> TRUE, fields |-> <<>>,
          value |-> RecordValue(record, col.name), link |-> col.link]

\* the columns iterating table.columns yields: the visible ones
VisibleColumns(t) == SelectSeq(t.columns, LAMBDA c : c.visible)

\* table.as_html(request): every row of table.paginated_rows, every visible
\* column; a KeyError raised by a cell ends it.
as_html(t) ==
    LET rows == [n \in 1..Len(PaginatedRows(t)) |->
                   [record |-> PaginatedRows(t)[n],
                    cells |-> [k \in 1..Len(VisibleColumns(t)) |->
                                 Cell(VisibleColumns(t)[k], PaginatedRows(t)[n])]]]
    IN  IF \E n \in DOMAIN rows : \E k \in DOMAIN rows[n].cells : ~rows[n].cells[k].ok
        THEN [status |-> "KeyError", rows |-> <<>>]
        ELSE [status |-> "ok", rows |-> rows]

\* formset, table = get_formset_table(...); table.as_html(request)
RenderTable ==
    /\ pc = "done"
    /\ kind = "function"
    /\ rendered' = as_html(table)
    /\ pc' = "rendered"
    /\ UNCHANGED <<placeholder, table, formset, tablesBuilt, formsetsBuilt, ret, lookup, call>>
    /\ UNCHANGED inputs
    /\ UNCHANGED viewState

\* --------------------------------------------------------------------- views
FilteredViews == {"FMFV", "FMFTV"}

TableViews == {"MFTV", "FMFTV"}

\* the filter parameters of a request: none, name=<a name> (valid), status=<not a
\* choice> (invalid)
FilterParams == {"", "name", "status"}

\* get_filterset: FilterSet(data=request.GET or None, queryset=get_queryset()).
\* Its qs applies the cleaned data, which holds no invalid field.
get_filterset(filter, qs) ==
    [is_bound |-> filter # "",
     is_valid |-> filter = "name",
     qs |-> IF filter = "name"
            THEN [rows |-> SelectSeq(qs.rows, NameMatches), ordered |-> qs.ordered]
            ELSE qs]

configure_filterset_if_valid(fs, is_strict) ==
    IF fs.is_valid \/ ~is_strict THEN fs.qs ELSE NoneQs

configure_filterset_qs(fs, is_strict) == fs.qs

configure_filterset_always_strict(fs, is_strict) ==
    IF ~fs.is_bound \/ fs.is_valid THEN fs.qs ELSE NoneQs

\* FilterViewMixin.configure_filterset: the object_list it returns
configure_filterset(fs, is_strict) ==
    IF ~fs.is_bound \/ fs.is_valid \/ ~is_strict THEN fs.qs ELSE NoneQs

get_table_data_as_is(qs) == qs

\* hasattr(data, "_query"): a queryset; a list of records has rows only
IsQuerySet(data) == "ordered" \in DOMAIN data

get_table_data_order_always(qs) == IF IsQuerySet(qs) THEN OrderBy(qs, "pk") ELSE qs

\* BaseModelFormSetSingleTableMixin.get_table_data, qs being what
\* super().get_table_data() returns
get_table_data(qs) == IF IsQuerySet(qs) /\ ~qs.ordered THEN OrderBy(qs, "pk") ELSE qs

\* the view's base queryset: ordered by price, or not ordered (the database then
\* answers in an order of its own, here descending primary keys)
BaseQuerysets(n) ==
    {OrderBy([rows |-> AllRecords(n), ordered |-> FALSE], "price"),
     [rows |-> [i \in 1..n |-> n + 1 - i], ordered |-> FALSE]}

ViewFormsetClasses == [extra : 0..MaxExtra, can_delete : {FALSE}, can_delete_extra : {TRUE}]

ViewTableClasses ==
    {[name |-> "ItemTable", meta |-> ItemMeta, top |-> <<>>, bottom |-> <<>>,
      invisible |-> {}, linkified |-> {"sku", "status"}],
     [name |-> "ItemTable", meta |-> ItemMeta, top |-> <<PinnedRow("top", 1)>>,
      bottom |-> <<PinnedRow("bottom", 1)>>, invisible |-> {}, linkified |-> {"sku", "status"}]}

Requests(k) ==
    [method : {"GET", "POST"},
     filter : IF k \in FilteredViews THEN FilterParams ELSE {""},
     sort : IF k \in TableViews THEN {"", "-price"} ELSE {""},
     page : IF k \in TableViews THEN 1..MaxPage ELSE {1}]

\* as_view()(request) up to the handler's object_list: get() / post() of the
\* filtered views call configure_filterset, ModelFormSetView takes get_queryset().
Dispatch ==
    /\ pc = "start"
    /\ \E k \in FilteredViews \cup TableViews, n \in 0..MaxRecords :
       \E qs \in BaseQuerysets(n), fc \in ViewFormsetClasses, rq \in Requests(k),
          tc \in (IF k \in TableViews THEN ViewTableClasses ELSE {table_class}),
          pp \in (IF k \in TableViews THEN 0..MaxPerPage ELSE {0}),
          st \in (IF k \in FilteredViews THEN BOOLEAN ELSE {TRUE}) :
         /\ rq.page = 1 \/ pp > 0
         /\ kind' = k
         /\ queryset' = qs
         /\ formset_class' = fc
         /\ table_class' = tc
         /\ paginate' = [per_page |-> pp, page |-> 1]
         /\ request' = rq
         /\ strict' = st
         /\ filterset' = IF k \in FilteredViews THEN get_filterset(rq.filter, qs)
                         ELSE NoFilterset
         /\ object_list' = IF k \in FilteredViews
                           THEN configure_filterset(get_filterset(rq.filter, qs), st)
                           ELSE qs
    /\ pc' = "idle"
    /\ UNCHANGED <<table_kwargs, placeholder, table, formset, tablesBuilt, formsetsBuilt,
                   cached, pending, ret, ncalls, validated, lookup, call, rendered>>

\* what a caller takes from the pair get_formset_and_table returns
Taken(op, pair) ==
    [formset |-> IF op = "the_table" THEN -1 ELSE pair.formset,
     table |-> IF op = "the_formset" THEN -1 ELSE pair.table]

\* post() validates the formset construct_formset() (the_formset) hands it
Validated(op, pair) ==
    IF op = "the_formset" /\ request.method = "POST" THEN pair.formset ELSE validated

IsCachedIfForms(c) == c.table # -1 /\ c.formset # -1 /\ Len(formset.forms) > 0

\* self._table and self._formset: neither is None (a table and a formset are
\* true whatever they hold)
IsCached(c) == c.table # -1 /\ c.formset # -1

\* get_formset_and_table called by op: the_table (get_table), the_formset
\* (construct_formset) or directly.  With the pair cached it returns at once.
GetFormsetAndTable(op) ==
    /\ pc = "idle"
    /\ kind \in TableViews
    /\ ncalls < MaxCalls
    /\ IF IsCached(cached)
       THEN /\ ret' = Taken(op, cached)
            /\ validated' = Validated(op, cached)
            /\ ncalls' = ncalls + 1
            /\ UNCHANGED <<pc, pending>>
       ELSE /\ pc' = "get_table"
            /\ pending' = op
            /\ UNCHANGED <<ret, validated, ncalls>>
    /\ UNCHANGED <<object_list, filterset, placeholder, table, formset, tablesBuilt,
                   formsetsBuilt, cached, lookup, call, rendered>>
    /\ UNCHANGED inputs

TheTable == GetFormsetAndTable("the_table")

TheFormset == GetFormsetAndTable("the_formset")

CallGetFormsetAndTable == GetFormsetAndTable("get_formset_and_table")

\* table = formset_tables.get_table(self.get_table_data(), ...)
ViewGetTable ==
    /\ pc = "get_table"
    /\ kind \in TableViews
    /\ placeholder' = NewFormset(0, NoneQs, formset_class)
    /\ table' = get_table(tablesBuilt + 1, get_table_data(object_list), table_class,
                          table_kwargs, formset_class)
    /\ tablesBuilt' = tablesBuilt + 1
    /\ pc' = "configure"
    /\ UNCHANGED <<formset, formsetsBuilt, ret, lookup, call, rendered>>
    /\ UNCHANGED inputs
    /\ UNCHANGED viewState

\* RequestConfig(request, paginate=get_table_pagination(table)).configure(table):
\* the request's sort, then its page; a page past the last becomes the last.
RequestConfigure(t) ==
    LET sorted == OrderTable(t, request.sort)
    IN  IF paginate.per_page = 0
        THEN sorted
        ELSE Paginate(sorted, paginate.per_page,
                      Min(request.page, NumPages(sorted, paginate.per_page)))

ViewConfigure ==
    /\ pc = "configure"
    /\ kind \in TableViews
    /\ table' = RequestConfigure(table)
    /\ pc' = "get_formset"
    /\ UNCHANGED <<placeholder, formset, tablesBuilt, formsetsBuilt, ret, lookup, call, rendered>>
    /\ UNCHANGED inputs
    /\ UNCHANGED viewState

\* self._formset = formset_tables.get_formset(table, ...); self._table = table
ViewGetFormset ==
    /\ pc = "get_formset"
    /\ kind \in TableViews
    /\ LET r == get_formset(formsetsBuilt + 1, table, formset_class)
           pair == [table |-> r[2].id, formset |-> r[1].id]
       IN  /\ formset' = r[1]
           /\ table' = r[2]
           /\ cached' = pair
           /\ ret' = Taken(pending, pair)
           /\ validated' = Validated(pending, pair)
    /\ formsetsBuilt' = formsetsBuilt + 1
    /\ ncalls' = ncalls + 1
    /\ pending' = "none"
    /\ pc' = "idle"
    /\ UNCHANGED <<object_list, filterset, placeholder, tablesBuilt, lookup, call, rendered>>
    /\ UNCHANGED inputs

\* FilteredModelFormsetView: construct_formset is the factory's own, on
\* get_formset_kwargs()["queryset"] = self.object_list
ConstructFormset ==
    /\ pc = "idle"
    /\ kind = "FMFV"
    /\ ncalls < MaxCalls
    /\ formset' = NewFormset(formsetsBuilt + 1, object_list, formset_class)
    /\ formsetsBuilt' = formsetsBuilt + 1
    /\ ret' = [formset |-> formsetsBuilt + 1, table |-> -1]
    /\ validated' = IF request.method = "POST" THEN formsetsBuilt + 1 ELSE validated
    /\ ncalls' = ncalls + 1
    /\ UNCHANGED <<pc, object_list, filterset, placeholder, table, tablesBuilt, cached,
                   pending, lookup, call, rendered>>
    /\ UNCHANGED inputs

\* ------------------------------------------------ functions called on their own
CallTableClasses ==
    [name : {"ItemTable", "Table"}, meta : {NoMeta, ItemMeta, <<NoAttrs>> \o ItemMeta},
     top : {<<>>}, bottom : {<<>>}, invisible : {{}, {"name"}},
     linkified : {{}, {"sku", "status"}}]

\* table_class = get_table_class(base_class, extra_columns, form_accessor)
CallGetTableClass ==
    /\ pc = "start"
    /\ \E base \in CallTableClasses, ec \in ExtraColumnChoices, fc \in FormsetClasses :
         /\ table_class' = base
         /\ table_kwargs' = [order_by |-> "", extra_columns |-> ec]
         /\ formset_class' = fc
         /\ call' = [fn |-> "get_table_class",
                     result |-> get_table_class(base, ec, 0, fc)]
    /\ kind' = "get_table_class"
    /\ pc' = "done"
    /\ UNCHANGED <<queryset, paginate, request, strict, placeholder, table, formset,
                   tablesBuilt, formsetsBuilt, ret, lookup, rendered>>
    /\ UNCHANGED viewState

TableKwargs ==
    {[other |-> "args"]}
    \cup [other : {"args"}, order_by : {"", "price"}, extra_columns : ExtraColumnChoices]

\* kwargs = get_formset_table_kwargs(formset_class, **kwargs)
CallGetFormsetTableKwargs ==
    /\ pc = "start"
    /\ \E kwargs \in TableKwargs, fc \in FormsetClasses :
         /\ table_kwargs' = kwargs
         /\ formset_class' = fc
         /\ call' = [fn |-> "get_formset_table_kwargs",
                     result |-> get_formset_table_kwargs(fc, kwargs)]
    /\ kind' = "get_formset_table_kwargs"
    /\ pc' = "done"
    /\ UNCHANGED <<queryset, table_class, paginate, request, strict, placeholder, table,
                   formset, tablesBuilt, formsetsBuilt, ret, lookup, rendered>>
    /\ UNCHANGED viewState

ColumnKwargs ==
    {<<>>, [linkify |-> TRUE], [linkify |-> TRUE, visible |-> FALSE],
     [verbose_name |-> "Edit"]}

\* column = FormFieldsColumn.from_column(forms, other, form_fields, **kwargs)
CallFromColumn ==
    /\ pc = "start"
    /\ \E visible \in BOOLEAN, linkify \in BOOLEAN, kwargs \in ColumnKwargs,
          form_fields \in {<<>>, <<"id", "order">>} :
         call' = [fn |-> "from_column",
                  other |-> Column("order", "Order", visible, linkify),
                  kwargs |-> kwargs,
                  result |-> from_column(0, Column("order", "Order", visible, linkify),
                                         form_fields, kwargs)]
    /\ kind' = "from_column"
    /\ pc' = "done"
    /\ UNCHANGED <<queryset, formset_class, table_class, table_kwargs, paginate, request,
                   strict, placeholder, table, formset, tablesBuilt, formsetsBuilt, ret,
                   lookup, rendered>>
    /\ UNCHANGED viewState

\* dict.update: a with every key of b set to b's value
DictUpdate(a, b) ==
    [k \in DOMAIN a \cup DOMAIN b |-> IF k \in DOMAIN b THEN b[k] ELSE a[k]]

add_form_kwargs_replace(formset_kwargs, form_kwargs) ==
    [formset_kwargs EXCEPT !.items =
        [k \in DOMAIN formset_kwargs.items \cup {"form_kwargs"} |->
           IF k = "form_kwargs" THEN form_kwargs ELSE formset_kwargs.items[k]]]

\* utils.add_form_kwargs(formset_kwargs, **form_kwargs): the dict given (the
\* same object, id), with form_kwargs updated
add_form_kwargs(formset_kwargs, form_kwargs) ==
    LET kwargs == DictUpdate(DictGet(formset_kwargs.items, "form_kwargs", <<>>), form_kwargs)
    IN  [formset_kwargs EXCEPT !.items =
            [k \in DOMAIN formset_kwargs.items \cup {"form_kwargs"} |->
               IF k = "form_kwargs" THEN kwargs ELSE formset_kwargs.items[k]]]

FormKwargs ==
    {<<>>, [user |-> "ann"], [label |-> "x"], [user |-> "bob", label |-> "y"]}

FormsetKwargs ==
    {[id |-> 1, items |-> items] :
       items \in {<<>>, [queryset |-> "qs"]}
                 \cup [queryset : {"qs"}, form_kwargs : FormKwargs]}

\* add_form_kwargs(formset_kwargs, **form_kwargs), a first and a second time
\* with the same keywords
CallAddFormKwargs ==
    /\ \/ /\ pc = "start"
          /\ \E fk \in FormsetKwargs, kw \in FormKwargs :
               call' = [fn |-> "add_form_kwargs", formset_kwargs |-> fk, form_kwargs |-> kw,
                        times |-> 1, once |-> add_form_kwargs(fk, kw),
                        result |-> add_form_kwargs(fk, kw)]
       \/ /\ pc = "done"
          /\ kind = "add_form_kwargs"
          /\ call.times = 1
          /\ call' = [call EXCEPT !.times = 2,
                                  !.result = add_form_kwargs(call.result, call.form_kwargs)]
    /\ kind' = "add_form_kwargs"
    /\ pc' = "done"
    /\ UNCHANGED <<queryset, formset_class, table_class, table_kwargs, paginate, request,
                   strict, placeholder, table, formset, tablesBuilt, formsetsBuilt, ret,
                   lookup, rendered>>
    /\ UNCHANGED viewState

\* SingleTableMixin.get_table_data, which super().get_table_data() runs: the
\* view's table_data when it is not None (<<>> here), else its object_list
SingleTableMixin_get_table_data(table_data, objects) ==
    IF table_data # <<>> THEN table_data[1] ELSE objects

\* table data that is no queryset: a list of records
ListData(n) == {[rows |-> AllRecords(n)], [rows |-> [i \in 1..n |-> n + 1 - i]]}

\* data = view.get_table_data(), the view having table_data or object_list
CallGetTableData ==
    /\ pc = "start"
    /\ \E n \in 0..MaxRecords :
       \E qs \in BaseQuerysets(n) \cup {[rows |-> AllRecords(n), ordered |-> TRUE]},
          td \in {<<>>} \cup {<<d>> : d \in ListData(n)} :
         /\ object_list' = qs
         /\ call' = [fn |-> "get_table_data",
                     table_data |-> td,
                     data |-> SingleTableMixin_get_table_data(td, qs),
                     result |-> get_table_data(SingleTableMixin_get_table_data(td, qs))]
    /\ kind' = "get_table_data"
    /\ pc' = "done"
    /\ UNCHANGED <<queryset, formset_class, table_class, table_kwargs, paginate, request,
                   strict, filterset, placeholder, table, formset, tablesBuilt, formsetsBuilt,
                   cached, pending, ret, ncalls, validated, lookup, rendered>>

\* bound tables on a queryset: not paginated, and on its first page
BoundTables(qs) ==
    {[NoTable EXCEPT !.id = 1, !.data = qs]}
    \cup {Paginate([NoTable EXCEPT !.id = 1, !.data = qs], p, 1) : p \in 1..MaxPerPage}

\* objects that do not expose a record set: one with neither page nor data
\* (None), a table whose data has no data attribute, a table whose page holds
\* rows with no data attribute
OpaqueTables(qs) ==
    {[id |-> 1],
     [id |-> 1, data |-> None],
     [id |-> 1, data |-> qs, page |-> [number |-> 1, per_page |-> 1]]}

\* qs = get_table_queryset(table)
CallGetTableQueryset ==
    /\ pc = "start"
    /\ \E n \in 0..MaxRecords, f \in SortFields, exposes \in BOOLEAN :
         LET qs == OrderBy([rows |-> AllRecords(n), ordered |-> TRUE], f)
         IN  \E t \in (IF exposes THEN BoundTables(qs) ELSE OpaqueTables(qs)) :
               call' = [fn |-> "get_table_queryset", table |-> t, exposes |-> exposes,
                        result |-> get_table_queryset(t)]
    /\ kind' = "get_table_queryset"
    /\ pc' = "done"
    /\ UNCHANGED <<queryset, formset_class, table_class, table_kwargs, paginate, request,
                   strict, placeholder, table, formset, tablesBuilt, formsetsBuilt, ret,
                   lookup, rendered>>
    /\ UNCHANGED viewState

\* the errors of a validated formset: the list non_form_errors() returns (the
\* formset's own _non_form_errors) and, per form, what non_field_errors() returns
ErrorFormsets ==
    {[non_form_errors |-> nfe,
      forms |-> [i \in 1..n |-> [index |-> i - 1, non_field_errors |-> errs[i]]]] :
       nfe \in {<<>>, <<"too few forms">>, <<"too few forms", "duplicate rows">>},
       n \in 0..MaxExtra,
       errs \in [1..MaxExtra -> {<<>>, <<"price too low">>, <<"name taken", "price too low">>}]}

\* for form in self: error_list.extend(form.non_field_errors())
RECURSIVE ExtendWithFormErrors(_, _, _)
ExtendWithFormErrors(error_list, forms, i) ==
    IF i > Len(forms)
    THEN error_list
    ELSE ExtendWithFormErrors(error_list \o forms[i].non_field_errors, forms, i + 1)

all_non_field_errors_no_copy(fs) ==
    LET error_list == ExtendWithFormErrors(fs.non_form_errors, fs.forms, 1)
    IN  [result |-> error_list, formset |-> [fs EXCEPT !.non_form_errors = error_list]]

\* BaseModelFormSet.all_non_field_errors: the list returned and the formset
\* after the call; error_list is a copy, so extending it leaves the formset's
\* list alone
all_non_field_errors(fs) ==
    [result |-> ExtendWithFormErrors(fs.non_form_errors, fs.forms, 1), formset |-> fs]

\* formset.all_non_field_errors(), a first and a second time
CallAllNonFieldErrors ==
    /\ \/ /\ pc = "start"
          /\ \E fs \in ErrorFormsets :
               call' = [fn |-> "all_non_field_errors", before |-> fs, times |-> 1,
                        once |-> all_non_field_errors(fs).result,
                        result |-> all_non_field_errors(fs).result,
                        formset |-> all_non_field_errors(fs).formset]
       \/ /\ pc = "done"
          /\ kind = "all_non_field_errors"
          /\ call.times = 1
          /\ call' = [call EXCEPT !.times = 2,
                                  !.result = all_non_field_errors(call.formset).result,
                                  !.formset = all_non_field_errors(call.formset).formset]
    /\ kind' = "all_non_field_errors"
    /\ pc' = "done"
    /\ UNCHANGED <<queryset, formset_class, table_class, table_kwargs, paginate, request,
                   strict, placeholder, table, formset, tablesBuilt, formsetsBuilt, ret,
                   lookup, rendered>>
    /\ UNCHANGED viewState

\* iter(forms): FormAccessor defines __getitem__ and no __iter__, so a for loop
\* over it asks for forms[0], forms[1], ... and ends at the first IndexError;
\* any other exception leaves the loop as raised.
IterStart ==
    /\ pc = "done"
    /\ kind = "accessor"
    /\ call = NoCall
    /\ call' = [fn |-> "iter", index |-> 0, yielded |-> <<>>, status |-> "running"]
    /\ UNCHANGED <<pc, formset, placeholder, table, tablesBuilt, formsetsBuilt, ret, lookup,
                   rendered>>
    /\ UNCHANGED inputs
    /\ UNCHANGED viewState

\* one round of the loop: forms[index]
IterNext ==
    /\ pc = "done"
    /\ kind = "accessor"
    /\ call.fn = "iter"
    /\ call.status = "running"
    /\ LET r == FormAccessorGetItem(formset, IntKey(call.index))
       IN  call' = IF r.ok
                   THEN [call EXCEPT !.index = call.index + 1,
                                     !.yielded = Append(call.yielded, r.form)]
                   ELSE [call EXCEPT !.status = IF r.error = "IndexError"
                                                THEN "stopped"
                                                ELSE r.error]
    /\ UNCHANGED <<pc, formset, placeholder, table, tablesBuilt, formsetsBuilt, ret, lookup,
                   rendered>>
    /\ UNCHANGED inputs
    /\ UNCHANGED viewState

Next ==
    \/ NewFormAccessor
    \/ Lookup
    \/ CallGetFormsetTable
    \/ FunctionGetTable
    \/ FunctionPaginate
    \/ FunctionGetFormset
    \/ RenderTable
    \/ Dispatch
    \/ TheTable
    \/ TheFormset
    \/ CallGetFormsetAndTable
    \/ ViewGetTable
    \/ ViewConfigure
    \/ ViewGetFormset
    \/ ConstructFormset
    \/ CallGetTableClass
    \/ CallGetFormsetTableKwargs
    \/ CallFromColumn
    \/ CallAddFormKwargs
    \/ CallGetTableData
    \/ CallGetTableQueryset
    \/ IterStart
    \/ IterNext
    \/ CallAllNonFieldErrors

Spec == Init /\ [][Next]_vars

\* a for loop that has started runs its rounds until one raises
FairSpec == Spec /\ WF_vars(IterNext)


\* ------------------------------------------------------------------- claims
\* the table and the formset have been built and stitched together
Stitched == pc \in {"done", "idle"} /\ table.id > 0 /\ formset.id > 0

NoOwnPinnedRows == table_class.top = <<>> /\ table_class.bottom = <<>>

\* the k-th block of p rows
PageSlice(rows, p, k) == SubSeq(rows, (k - 1) * p + 1, Min(k * p, Len(rows)))

C3_ExtraFormsPinnedAtBottom ==
    [][(pc = "get_formset" /\ pc' \in {"done", "idle"})
         => /\ table'.pinned.bottom
                 = table.pinned.bottom \o FormInstances(ExtraForms(formset'))
            /\ (table.pinned.bottom = <<>>
                  => table'.pinned.bottom = FormInstances(ExtraForms(formset')))
            /\ table'.pinned.top = table.pinned.top]_vars

C3_Witness ==
    /\ Stitched
    /\ table_class.bottom = <<PinnedRow("bottom", 1)>>
    /\ table_class.top = <<PinnedRow("top", 1)>>
    /\ table.pinned.bottom = <<PinnedRow("bottom", 1), NewInstance(1, 1), NewInstance(1, 2)>>
    /\ table.pinned.top = <<PinnedRow("top", 1)>>

C5_AsStated ==
    Stitched
        => \A i \in DOMAIN table.columns :
             table.columns[i].form
               => /\ table.columns[i].forms = formset.id
                  /\ \A j \in DOMAIN formset.forms :
                       FormAccessorGetItem(AccessorFormset(table.columns[i].forms),
                                           formset.forms[j].instance)
                         = Found(formset.forms[j])

\* C6: len(FormAccessor(formset)) is the number of forms, forms[f.instance] is f
\* and forms[i] is the formset's i-th form; a lookup made returns accordingly.
C6_FormAccessor ==
    formset.id > 0
        => /\ FormAccessorLen(formset) = Len(formset.forms)
           /\ \A i \in DOMAIN formset.forms :
                /\ FormAccessorGetItem(formset, formset.forms[i].instance)
                     = Found(formset.forms[i])
                /\ FormAccessorGetItem(formset, IntKey(i - 1)) = Found(formset.forms[i])
                /\ lookup.key \in {formset.forms[i].instance, IntKey(i - 1)}
                     => lookup.result = Found(formset.forms[i])

C6_Witness ==
    /\ kind = "accessor"
    /\ Len(formset.forms) = 4
    /\ lookup.key = NewInstance(1, 2)
    /\ lookup.result.ok
    /\ lookup.result.form.index = 3

\* the forms of the formset are stitched into the table's visible form columns
StitchedInto(t, id) ==
    \A i \in DOMAIN t.columns :
      (t.columns[i].form /\ t.columns[i].visible) => t.columns[i].forms = id

\* C7: on one view instance every call of the_table / get_table, the_formset /
\* construct_formset and get_formset_and_table returns the one table and the one
\* formset built first; the pair is built at most once, also on an empty record
\* set, and the formset post() validates is the one stitched into the table.
C7_OnePairPerView ==
    kind \in TableViews
        => /\ tablesBuilt <= 1
           /\ formsetsBuilt <= 1
           /\ ret.table # -1 => (ret.table = 1 /\ ret.table = table.id /\ cached.table = 1)
           /\ ret.formset # -1
                => (ret.formset = 1 /\ ret.formset = formset.id /\ cached.formset = 1)
           /\ validated # -1 => (validated = formset.id /\ StitchedInto(table, validated))

C7_Witness ==
    /\ kind \in TableViews
    /\ request.method = "POST"
    /\ ncalls = 2
    /\ Len(formset.forms) = 0
    /\ table.data.rows = <<>>
    /\ validated = 1
    /\ ret = [formset |-> -1, table |-> 1]

\* the filter decides the record set: it is unbound or valid, or the view is
\* not strict
FilterApplies == ~filterset.is_bound \/ filterset.is_valid \/ ~strict

RecordSet(rows) == Range(Records(rows))

RequestedOrder(qs, sort) ==
    IF sort # "" THEN SortSeq(qs.rows, LAMBDA a, b : SortKey(a, sort) < SortKey(b, sort))
    ELSE IF qs.ordered THEN qs.rows
    ELSE SortSeq(qs.rows, LAMBDA a, b : a < b)

C11_GeneratedClass ==
    kind = "get_table_class"
        => /\ call.result.name = "FormFields" \o table_class.name
           /\ table_class.name \in Range(call.result.bases)
           /\ MetaFields(call.result.meta) = MetaFields(table_class.meta)

C11_Witness ==
    /\ kind = "get_table_class"
    /\ table_class.name = "ItemTable"
    /\ table_class.meta = ItemMeta
    /\ call.result.name = "FormFieldsItemTable"
    /\ call.result.bases = <<"ItemTable">>
    /\ MetaFields(call.result.meta) = [given |-> TRUE, fields |-> {"sku", "name", "status"}]

\* C12 (as stated): the class get_table_class returns, and the table get_table
\* builds, has every column passed in extra_columns, a form field or not.
C12_AsStated ==
    /\ kind = "get_table_class"
         => \A i \in DOMAIN table_kwargs.extra_columns :
              table_kwargs.extra_columns[i].name \in ColumnNames(call.result.base_columns)
    /\ (kind = "function" /\ table.id > 0)
         => \A i \in DOMAIN table_kwargs.extra_columns :
              table_kwargs.extra_columns[i].name \in ColumnNames(table.columns)

\* C13: in the generated class exactly the columns named after a visible field
\* of the form the accessor reads (name, status, and DELETE when the formset's
\* extra forms can be deleted) are FormFieldsColumns; every other column of the
\* base class is there, in its place, as the base class defines it.
C13_OnlyFormFieldsReplaced ==
    kind = "get_table_class"
        => LET cols == call.result.base_columns
               base == base_columns(table_class)
               fields == Range(FormVisibleFields)
                           \cup (IF formset_class.can_delete /\ formset_class.can_delete_extra
                                 THEN {"DELETE"}
                                 ELSE {})
           IN  /\ \A i \in DOMAIN cols : cols[i].form <=> cols[i].name \in fields
               /\ Len(cols) >= Len(base)
               /\ \A i \in DOMAIN base :
                    /\ cols[i].name = base[i].name
                    /\ base[i].name \notin fields => cols[i] = base[i]

C13_Witness ==
    /\ kind = "get_table_class"
    /\ table_class.linkified = {"sku", "status"}
    /\ table_kwargs.extra_columns = <<>>
    /\ call.result.base_columns[1] = Column("sku", "sku", TRUE, TRUE)
    /\ call.result.base_columns[2].form
    /\ call.result.base_columns[3].form
    /\ call.result.base_columns[3].name = "status"

\* C14: get_formset_table_kwargs returns the kwargs given with extra_columns
\* holding one generated DELETE column when the formset can delete and none
\* when it cannot; every column the caller passed is kept, a caller's DELETE
\* column replaces the generated one, and every other kwarg is unchanged.
C14_FormsetTableKwargs ==
    kind = "get_formset_table_kwargs"
        => LET r == call.result
               given == IF "extra_columns" \in DOMAIN table_kwargs
                        THEN table_kwargs.extra_columns ELSE <<>>
               deletes == {i \in DOMAIN r.extra_columns : r.extra_columns[i].name = "DELETE"}
           IN  /\ DOMAIN r = DOMAIN table_kwargs \cup {"extra_columns"}
               /\ \A k \in DOMAIN table_kwargs \ {"extra_columns"} : r[k] = table_kwargs[k]
               /\ \A i \in DOMAIN given : given[i] \in Range(r.extra_columns)
               /\ IF formset_class.can_delete
                  THEN /\ Cardinality(deletes) = 1
                       /\ \A i \in deletes :
                            /\ ExtraDelete \in Range(given) => r.extra_columns[i] = ExtraDelete
                            /\ ExtraDelete \notin Range(given)
                                 => r.extra_columns[i] = Column("DELETE", "Delete", TRUE, FALSE)
                       /\ Range(r.extra_columns) \ {r.extra_columns[i] : i \in deletes}
                            = Range(given) \ {ExtraDelete}
                  ELSE r.extra_columns = given

C14_Witness ==
    /\ kind = "get_formset_table_kwargs"
    /\ formset_class.can_delete
    /\ table_kwargs = [other |-> "args", order_by |-> "price",
                       extra_columns |-> <<ExtraDelete, ExtraNotes>>]
    /\ call.result.extra_columns = <<ExtraDelete, ExtraNotes>>
    /\ call.result.other = "args"
    /\ call.result.order_by = "price"

\* --------------------------------------------------- claims on the rendered table
\* the table of get_formset_table has been rendered; its rows are the page's
\* record rows followed by the extra forms' rows
RenderedRows == pc = "rendered" /\ kind = "function" /\ NoOwnPinnedRows

\* the cells of the n-th displayed row that hold the bound field f of form n
CellsWith(n, f) ==
    {k \in DOMAIN rendered.rows[n].cells :
       BoundField(formset.forms[n], f) \in Range(rendered.rows[n].cells[k].fields)}

\* C15 (as stated): when the formset can delete, the table has a DELETE column
\* and every displayed row, a record's or an extra form's, renders in it the
\* DELETE checkbox of the form at the row's position, named form-<n>-DELETE.
C15_AsStated ==
    (RenderedRows /\ formset_class.can_delete)
        => /\ rendered.status = "ok"
           /\ \E i \in DOMAIN table.columns :
                table.columns[i].name = "DELETE" /\ table.columns[i].visible
           /\ Len(rendered.rows) = Len(formset.forms)
           /\ \A n \in DOMAIN rendered.rows :
                /\ formset.forms[n].index = n - 1
                /\ \E k \in CellsWith(n, "DELETE") :
                     rendered.rows[n].cells[k].column = "DELETE"
                /\ \A k \in DOMAIN rendered.rows[n].cells :
                     rendered.rows[n].cells[k].column = "DELETE"
                       => <<"form", n - 1, "DELETE">>
                            \in Range(rendered.rows[n].cells[k].fields)

\* C16 (as stated): every hidden field of a row's form is rendered exactly once
\* per displayed row; the hidden fields are attached to the first form-field
\* column, in column order, and to no other column.
C16_AsStated ==
    RenderedRows
        => /\ rendered.status = "ok"
           /\ \A n \in DOMAIN rendered.rows :
                \A h \in Range(FormHiddenFields) : Cardinality(CellsWith(n, h)) = 1
           /\ \A i \in DOMAIN table.columns :
                (table.columns[i].form_fields # <<>>)
                  <=> /\ table.columns[i].form
                      /\ \A j \in 1..(i - 1) : ~table.columns[j].form

\* C17: for the n-th displayed row, the cell of a form-field column renders the
\* bound field of the formset's n-th form named after the column, and the
\* cell's plain value is the record's own value for the column.
C17_CellRendersItsFormField ==
    RenderedRows
        => /\ rendered.status = "ok"
           /\ Len(rendered.rows) = Len(formset.forms)
           /\ \A n \in DOMAIN rendered.rows :
                /\ formset.forms[n].instance = rendered.rows[n].record
                /\ formset.forms[n].index = n - 1
                /\ \A k \in DOMAIN rendered.rows[n].cells :
                     LET cell == rendered.rows[n].cells[k]
                     IN  /\ VisibleColumns(table)[k].name = cell.column
                         /\ VisibleColumns(table)[k].form
                              => <<"form", n - 1, cell.column>> \in Range(cell.fields)
                         /\ cell.value = <<"value", rendered.rows[n].record, cell.column>>

C17_Witness ==
    /\ RenderedRows
    /\ table_kwargs.order_by = "-price"
    /\ table.page.number = 1
    /\ table.page.per_page = 2
    /\ queryset.rows = <<1, 2, 3>>
    /\ formset_class.extra = 1
    /\ rendered.status = "ok"
    /\ Len(rendered.rows) = 3
    /\ rendered.rows[2].record = Rec(1)
    /\ rendered.rows[3].record = NewInstance(1, 1)
    /\ \E k \in DOMAIN rendered.rows[3].cells :
         /\ rendered.rows[3].cells[k].column = "status"
         /\ rendered.rows[3].cells[k].fields = <<<<"form", 2, "status">>>>
         /\ rendered.rows[3].cells[k].value = <<"value", NewInstance(1, 1), "status">>

\* C18: a FormFieldsColumn has its link disabled, whatever the linkify setting
\* of the column it is made from and whatever keywords from_column is given;
\* so has every form-field column of a table built.
C18_NeverLinkified ==
    /\ kind = "from_column" => (call.result.form /\ ~call.result.link)
    /\ \A i \in DOMAIN table.columns : table.columns[i].form => ~table.columns[i].link

C18_Witness ==
    /\ kind = "from_column"
    /\ call.other.link
    /\ call.kwargs = [linkify |-> TRUE]
    /\ call.result.form
    /\ ~call.result.link

\* C19: add_form_kwargs returns the dict it was given, its form_kwargs being the
\* previous form_kwargs (or none) with every keyword given set, every other key
\* as it was; a second call with the same keywords changes nothing.
C19_AddFormKwargs ==
    kind = "add_form_kwargs"
        => LET a == call.formset_kwargs
               r == call.result
               kw == call.form_kwargs
               prev == IF "form_kwargs" \in DOMAIN a.items THEN a.items.form_kwargs ELSE <<>>
           IN  /\ r.id = a.id
               /\ DOMAIN r.items = DOMAIN a.items \cup {"form_kwargs"}
               /\ \A k \in DOMAIN a.items \ {"form_kwargs"} : r.items[k] = a.items[k]
               /\ DOMAIN r.items.form_kwargs = DOMAIN prev \cup DOMAIN kw
               /\ \A k \in DOMAIN kw : r.items.form_kwargs[k] = kw[k]
               /\ \A k \in DOMAIN prev \ DOMAIN kw : r.items.form_kwargs[k] = prev[k]
               /\ call.times = 2 => r = call.once

C19_Witness ==
    /\ kind = "add_form_kwargs"
    /\ call.times = 2
    /\ call.formset_kwargs.items = [queryset |-> "qs", form_kwargs |-> [label |-> "x"]]
    /\ call.form_kwargs = [user |-> "ann"]
    /\ call.result.items.form_kwargs = [user |-> "ann", label |-> "x"]

\* ------------------------------------------------------ claims on the build order
\* the table's data as the caller asked for it: the base record set, sorted
RequestedData ==
    IF kind = "function"
    THEN IF table_kwargs.order_by = "" THEN queryset ELSE OrderBy(queryset, table_kwargs.order_by)
    ELSE IF request.sort = "" THEN get_table_data(object_list)
         ELSE OrderBy(get_table_data(object_list), request.sort)

\* C20: the placeholder formset on an empty queryset and the table come first,
\* then the table is sorted and paginated, and only then the real formset is
\* built on the table's record set, its forms set into the columns and the
\* extra rows pinned; the formset is never built before the table is paginated,
\* and the table is not sorted or paginated after.
C20_BuildOrder ==
    [][/\ (tablesBuilt' = tablesBuilt + 1)
            => /\ placeholder'.id = 0
               /\ placeholder'.queryset = NoneQs
               /\ formsetsBuilt = 0
               /\ formset' = NoFormset
               /\ ~HasPage(table')
               /\ \A i \in DOMAIN table'.columns :
                    table'.columns[i].form => table'.columns[i].forms = placeholder'.id
       /\ (table.id > 0 /\ (table'.page # table.page \/ table'.data # table.data))
            => /\ formsetsBuilt = 0
               /\ formset = NoFormset
               /\ tablesBuilt = 1
       /\ (formsetsBuilt' = formsetsBuilt + 1 /\ kind \in {"function"} \cup TableViews)
            => /\ tablesBuilt = 1
               /\ placeholder.id = 0
               /\ paginate.per_page > 0 => HasPage(table)
               /\ table.data = RequestedData
               /\ formset'.queryset.rows = PageData(table)
               /\ table'.data = table.data
               /\ table'.page = table.page
               /\ StitchedInto(table', formset'.id)
               /\ table'.pinned.bottom
                    = table.pinned.bottom \o FormInstances(ExtraForms(formset'))]_vars

C20_Witness ==
    /\ Stitched
    /\ kind = "FMFTV"
    /\ request.sort = "-price"
    /\ table.page.number = 2
    /\ table.page.per_page = 2
    /\ table.data.rows = <<2, 1, 3>>
    /\ placeholder.id = 0
    /\ tablesBuilt = 1
    /\ formsetsBuilt = 1
    /\ formset.queryset.rows = <<3>>
    /\ formset_class.extra = 1
    /\ table.pinned.bottom = <<NewInstance(1, 1)>>

AscendingPk(rows) == \A i \in 1..(Len(rows) - 1) : rows[i] < rows[i + 1]

\* C22: get_table_data returns an ordered queryset when the view's table data
\* is a queryset: an unordered one comes back ordered by the primary key with
\* the same records, an ordered one comes back as it is; table data that is no
\* queryset comes back unchanged.  In the table views, the table is built on
\* an ordered queryset.
C22_TableDataOrdered ==
    /\ call.fn = "get_table_data" =>
          /\ IsQuerySet(call.data) =>
                /\ IsQuerySet(call.result)
                /\ call.result.ordered
                /\ Range(call.result.rows) = Range(call.data.rows)
                /\ Len(call.result.rows) = Len(call.data.rows)
          /\ (IsQuerySet(call.data) /\ ~call.data.ordered) => AscendingPk(call.result.rows)
          /\ (IsQuerySet(call.data) /\ call.data.ordered) => call.result = call.data
          /\ ~IsQuerySet(call.data) => call.result = call.data
    /\ (kind \in TableViews /\ table.id > 0) => table.data.ordered

C22_Witness ==
    /\ call.fn = "get_table_data"
    /\ call.table_data = <<>>
    /\ ~call.data.ordered
    /\ call.data.rows = <<3, 2, 1>>
    /\ call.result = [rows |-> <<1, 2, 3>>, ordered |-> TRUE]

\* C23: get_table_queryset lets no AttributeError out: for a table whose page
\* or data does not expose the record set the result is None, for a bound
\* table it is the record set (of the page when the table is paginated).
C23_NoAttributeError ==
    call.fn = "get_table_queryset" =>
        /\ call.result # AttributeError
        /\ ~call.exposes => call.result = None
        /\ call.exposes =>
              /\ IsQuerySet(call.result)
              /\ call.result.rows = PageData(call.table)

C23_Witness ==
    /\ call.fn = "get_table_queryset"
    /\ ~call.exposes
    /\ "page" \in DOMAIN call.table
    /\ Len(call.table.data.rows) = MaxRecords
    /\ call.result = None

Iterating == kind = "accessor" /\ call.fn = "iter"

\* C25: iterating a FormAccessor yields the forms of the formset in formset
\* order, the i-th round yielding the form of index i - 1, raises nothing but
\* the IndexError that ends it, and does end, having yielded every form once.
C25_IterationYieldsForms ==
    /\ [](Iterating =>
             /\ call.status \in {"running", "stopped"}
             /\ call.yielded = SubSeq(formset.forms, 1, call.index)
             /\ call.status = "stopped" => call.yielded = formset.forms)
    /\ ((Iterating /\ call.status = "running") ~> (Iterating /\ call.status = "stopped"))

C25_Witness ==
    /\ Iterating
    /\ call.status = "stopped"
    /\ Len(formset.forms) = MaxRecords + MaxExtra
    /\ call.index = MaxRecords + MaxExtra
    /\ call.yielded = formset.forms

\* the number of non-field errors of the forms before the i-th
RECURSIVE ErrorsBefore(_, _)
ErrorsBefore(forms, i) ==
    IF i <= 1 THEN 0 ELSE ErrorsBefore(forms, i - 1) + Len(forms[i - 1].non_field_errors)

\* C26: all_non_field_errors returns the formset's non-form errors, then the
\* non-field errors of each form, in form order, and nothing else; the call
\* leaves the formset, its non-form errors included, as it was, so a second
\* call returns a list equal to the first.
C26_AllNonFieldErrors ==
    call.fn = "all_non_field_errors" =>
        LET fs == call.before
            nfe == fs.non_form_errors
        IN  /\ Len(call.result) = Len(nfe) + ErrorsBefore(fs.forms, Len(fs.forms) + 1)
            /\ SubSeq(call.result, 1, Len(nfe)) = nfe
            /\ \A i \in DOMAIN fs.forms :
                  SubSeq(call.result,
                         Len(nfe) + ErrorsBefore(fs.forms, i) + 1,
                         Len(nfe) + ErrorsBefore(fs.forms, i + 1))
                    = fs.forms[i].non_field_errors
            /\ call.formset = fs
            /\ call.formset.non_form_errors = nfe
            /\ call.result = call.once

C26_Witness ==
    /\ call.fn = "all_non_field_errors"
    /\ call.times = 2
    /\ call.before.non_form_errors = <<"too few forms">>
    /\ Len(call.before.forms) = 2
    /\ call.before.forms[1].non_field_errors = <<"name taken", "price too low">>
    /\ call.before.forms[2].non_field_errors = <<"price too low">>
    /\ call.result = <<"too few forms", "name taken", "price too low", "price too low">>

\* C27 (as stated): for a table built by get_table and get_formset, whatever
\* rows its class pins itself, every displayed row (page rows and pinned rows)
\* has a form in the accessor of its form-field columns, and rendering the
\* table raises no KeyError.
C27_AsStated ==
    (pc = "rendered" /\ kind = "function")
        => /\ rendered.status # "KeyError"
           /\ \A n \in DOMAIN PaginatedRows(table) :
                FormAccessorGetItem(formset, PaginatedRows(table)[n]).ok

\* C28 (as stated): the visible and hidden field names get_table reads from the
\* placeholder formset are the field names of every form of the real formset,
\* and a column of the table is a form-field column exactly when it is named
\* after a visible field of the form of each row.
C28_AsStated ==
    (Stitched /\ kind = "function")
        => \A i \in DOMAIN formset.forms :
             /\ FormFieldNames(formset_class, formset, formset.forms[i])
                  = Range(visible_fields(formset_class)) \cup Range(hidden_fields(formset_class))
             /\ \A k \in DOMAIN table.columns :
                  table.columns[k].form
                    <=> table.columns[k].name
                          \in FormFieldNames(formset_class, formset, formset.forms[i])

====
